---- MODULE Spec2Model ----
(***************************************************************************)
(* A model of localstack's ASF API-gateway routing layer:                  *)
(*   services/apigateway/router_asf.py    ApigatewayRouter,                *)
(*                                        to_invocation_context            *)
(*   services/apigateway/provider_asf.py  AsfApigatewayProvider            *)
(*   services/apigateway/context.py       ApiInvocationContext             *)
(*                                                                         *)
(* Conventions.  An Optional[T] is a sequence of length 0 (None, or a key  *)
(* that is absent from a dict and read with .get) or of length 1 (the      *)
(* value).  A path or a query string is a sequence of tokens: the          *)
(* delimiters "/", "?", "&" and the maximal runs of other characters       *)
(* between them.  A byte string and a text are sequences of integers       *)
(* (bytes, code points).                                                   *)
(***************************************************************************)
EXTENDS Integers, Sequences, FiniteSets, TLC

VARIABLES
    rules,        \* the shared Router's rule list (ROUTER), in registration order
    registered,   \* ApigatewayRouter.registered, one flag per router object
    calls,        \* number of on_after_init calls made so far, per provider
    apis,         \* the API store: api id -> Optional[region]
    arrived,      \* Optional: the HTTP request as it arrived
    request,      \* Optional: the same request object after the handler ran
    url_params,   \* Optional: the variables the matching rule captured
    ctx,          \* Optional: the ApiInvocationContext built for the request
    outcome,      \* what the handler returned or raised
    log,          \* the collaborator calls the handler made, in order
    qp,           \* the last query_params() call on ctx
    hpc,          \* position of the invoke_rest_api thread (interleaved run)
    rpc,          \* position of each register_routes thread (interleaved run)
    rowner,       \* the router object each register_routes thread acts on
    rk,           \* number of Router.add calls each thread has made
    body,         \* request.data of the request under the body accessors
    flagRes,      \* the last is_data_base64_encoded read
    strRes,       \* the last data_as_string() call
    auth_info,    \* ApiInvocationContext.auth_info
    authRead,     \* Optional: the dict the last auth_context read returned
    justRead,     \* the last operation on auth_info was an auth_context read
    hasRead       \* auth_context has been read at least once

routeVars == <<rules, registered, calls>>
reqVars   == <<arrived, request, url_params, ctx, outcome, log, qp>>
regVars   == <<rpc, rowner, rk>>
bodyVars  == <<body, flagRes, strRes>>
authVars  == <<auth_info, authRead, justRead, hasRead>>
vars == <<rules, registered, calls, apis, arrived, request, url_params, ctx,
          outcome, log, qp, hpc, rpc, rowner, rk, body, flagRes, strRes,
          auth_info, authRead, justRead, hasRead>>

(***************************************************************************)
(* Optional values                                                          *)
(***************************************************************************)
None == <<>>
Some(v) == <<v>>
IsNone(o) == o = <<>>
Get(o) == o[1]

(***************************************************************************)
(* Bounds                                                                   *)
(***************************************************************************)
MaxCalls == 3        \* on_after_init calls per provider
MaxBodyLen == 3      \* bytes in a request body
NumThreads == 2      \* concurrent register_routes calls

ApiIds == {"a1", "a2"}
Stages == {"prod", "dev"}
Regions == {"us-east-1"}
Providers == {"p1", "p2"}
MainProvider == "p1"

(***************************************************************************)
(* Token strings: str.split(sep)[0], str.partition(sep)[2], startswith      *)
(***************************************************************************)
RECURSIVE IndexOf(_, _, _)
IndexOf(s, tok, i) ==
    IF i > Len(s) THEN 0
    ELSE IF s[i] = tok THEN i
    ELSE IndexOf(s, tok, i + 1)

\* s.split(tok)[0]: the part before the first tok, all of s when there is none
SplitFirst(s, tok) ==
    LET i == IndexOf(s, tok, 1)
    IN IF i = 0 THEN s ELSE SubSeq(s, 1, i - 1)

\* s.partition(tok)[2]: the part after the first tok, "" when there is none
PartitionAfter(s, tok) ==
    LET i == IndexOf(s, tok, 1)
    IN IF i = 0 THEN <<>> ELSE SubSeq(s, i + 1, Len(s))

StartsWithSlash(s) == Len(s) > 0 /\ s[1] = "/"

(***************************************************************************)
(* The route table: Router.add and rule matching                            *)
(***************************************************************************)
HostTemplate == <<"<api_id>", "execute-api", "<server>">>

\* the five add() calls of register_routes, in order; endpoint is the bound
\* method self.invoke_rest_api, so it carries the router object.  defaults
\* are read with .get: a key that is absent and a key set to None are both None
Binding(k, self) ==
    CASE k = 1 -> [host |-> Some(HostTemplate),
              path |-> <<"/">>,
              defaults |-> [path |-> Some(<<>>), stage |-> None],
                   endpoint |-> self]
      [] k = 2 -> [host |-> Some(HostTemplate),
                   path |-> <<"/", "<stage>", "/">>,
                   defaults |-> [path |-> Some(<<>>), stage |-> None],
                   endpoint |-> self]
      [] k = 3 -> [host |-> Some(HostTemplate),
                   path |-> <<"/", "<stage>", "/", "<path:path>">>,
                   defaults |-> [path |-> None, stage |-> None],
                   endpoint |-> self]
      [] k = 4 -> [host |-> None,
                   path |-> <<"/", "restapis", "/", "<api_id>", "/", "<stage>", "/",
                              "_user_request_">>,
                   defaults |-> [path |-> Some(<<>>), stage |-> None],
                   endpoint |-> self]
      [] k = 5 -> [host |-> None,
                   path |-> <<"/", "restapis", "/", "<api_id>", "/", "<stage>", "/",
                              "_user_request_", "/", "<path:path>">>,
                   defaults |-> [path |-> None, stage |-> None],
                   endpoint |-> self]

NumBindings == 5

\* Router.add: the rule goes to the end of the table; the table does not
\* compare it with the rules it holds
RouterAdd(table, rule) == Append(table, rule)

RECURSIVE AddAll(_, _, _)
AddAll(table, self, k) ==
    IF k > NumBindings THEN table
    ELSE AddAll(RouterAdd(table, Binding(k, self)), self, k + 1)

\* register_routes with the one-shot guard left out
register_routes_NoGuard(table, flags, self) ==
    [rules |-> AddAll(table, self, 1),
     registered |-> [flags EXCEPT ![self] = TRUE]]

\* ApigatewayRouter.register_routes, run without interruption
register_routes(table, flags, self) ==
    IF flags[self]
    THEN [rules |-> table, registered |-> flags]
    ELSE [rules |-> AddAll(table, self, 1),
          registered |-> [flags EXCEPT ![self] = TRUE]]

(***************************************************************************)
(* Rule matching (werkzeug's converters): <stage> and <api_id> take one     *)
(* segment, <path:path> takes the non-empty rest, which does not start      *)
(* with "/"; the host template takes <api_id>.execute-api.<anything>        *)
(***************************************************************************)
RECURSIVE MatchPath(_, _, _)
MatchPath(tpl, p, caps) ==
    IF tpl = <<>> THEN (IF p = <<>> THEN Some(caps) ELSE None)
    ELSE IF Head(tpl) = "<path:path>"
         THEN (IF p # <<>> /\ p[1] # "/"
               THEN Some([caps EXCEPT !.path = Some(p)]) ELSE None)
    ELSE IF p = <<>> THEN None
    ELSE IF Head(tpl) = "<stage>"
         THEN (IF p[1] # "/"
               THEN MatchPath(Tail(tpl), Tail(p), [caps EXCEPT !.stage = Some(p[1])])
               ELSE None)
    ELSE IF Head(tpl) = "<api_id>"
         THEN (IF p[1] # "/"
               THEN MatchPath(Tail(tpl), Tail(p), [caps EXCEPT !.api_id = Some(p[1])])
               ELSE None)
    ELSE IF Head(tpl) = p[1] THEN MatchPath(Tail(tpl), Tail(p), caps)
    ELSE None

MatchHost(tpl, host, caps) ==
    IF IsNone(tpl) THEN Some(caps)
    ELSE IF Len(host) >= 3 /\ host[2] = "execute-api"
         THEN Some([caps EXCEPT !.api_id = Some(host[1])])
    ELSE None

MatchRule(rule, host, p) ==
    LET start == [api_id |-> None, stage |-> rule.defaults.stage,
                  path |-> rule.defaults.path]
        h == MatchHost(rule.host, host, start)
    IN IF IsNone(h) THEN None ELSE MatchPath(rule.path, p, Get(h))

\* Router dispatch: the first rule, in registration order, that matches
RECURSIVE resolve(_, _, _, _)
resolve(table, host, p, i) ==
    IF i > Len(table) THEN None
    ELSE LET m == MatchRule(table[i], host, p)
         IN IF IsNone(m) THEN resolve(table, host, p, i + 1)
            ELSE Some([endpoint |-> table[i].endpoint, args |-> Get(m)])

(***************************************************************************)
(* Requests                                                                 *)
(***************************************************************************)
RemoteAddr == <<"10.0.0.1">>
ApiHost(a) == <<a, "execute-api", "localhost">>
LocalHost == <<"localhost">>
SubPaths == {<<"pets", "/", "1">>}
Overrides == {<<"/", "pets", "?", "y=2">>, <<"/", "pets">>}

HostUrls ==
    {[host |-> ApiHost(a), path |-> <<"/">>] : a \in ApiIds}
    \cup {[host |-> ApiHost(a), path |-> <<"/", s, "/">>] : a \in ApiIds, s \in Stages}
    \cup {[host |-> ApiHost(a), path |-> <<"/", s, "/">> \o sp] :
             a \in ApiIds, s \in Stages, sp \in SubPaths}

LocalUrls ==
    {[host |-> LocalHost,
      path |-> <<"/", "restapis", "/", a, "/", s, "/", "_user_request_">>] :
         a \in ApiIds, s \in Stages}
    \cup {[host |-> LocalHost,
           path |-> <<"/", "restapis", "/", a, "/", s, "/", "_user_request_", "/">> \o sp] :
             a \in ApiIds, s \in Stages, sp \in SubPaths}
    \cup {[host |-> LocalHost, path |-> <<"/", "health">>]}

NoPayload == [restApiId |-> None, httpMethod |-> None, hasData |-> FALSE,
              pathWithQueryString |-> None]

\* a user invocation as the HTTP server hands it to the router
UserRequest(u, q, xff) ==
    [kind |-> "user", host |-> u.host, path |-> u.path, query_string |-> q,
     method |-> "GET", remote_addr |-> RemoteAddr,
     headers |-> [xff |-> xff, edge |-> None],
     payload |-> NoPayload]

\* with or without a query string, with or without a proxy's X-Forwarded-For
UserRequests ==
    {UserRequest(u, <<>>, <<>>) : u \in HostUrls \cup LocalUrls}
    \cup {UserRequest(u, <<"x=1">>, << <<"9.9.9.9">> >>) : u \in HostUrls \cup LocalUrls}

\* scheme://host/ as tokens
HostUrl(req) == <<"http:", "/", "/">> \o req.host \o <<"/">>

RECURSIVE Strip(_, _)
Strip(s, tok) ==
    IF s = <<>> THEN s
    ELSE IF Head(s) = tok THEN Strip(Tail(s), tok)
    ELSE IF s[Len(s)] = tok THEN Strip(SubSeq(s, 1, Len(s) - 1), tok)
    ELSE s

(***************************************************************************)
(* The collaborators                                                        *)
(***************************************************************************)
\* helpers.get_api_region: the region of a known API, None for any other id
get_api_region(store, api_id) ==
    IF IsNone(api_id) THEN None
    ELSE IF Get(api_id) \in DOMAIN store THEN store[Get(api_id)]
    ELSE None

\* what invoke_rest_api_from_request may return
Responses == {[id |-> "r1", status |-> 200], [id |-> "r2", status |-> 500]}
Results == {None} \cup {Some(r) : r \in Responses}

Return(resp) == [kind |-> "return", resp |-> Some(resp), exc |-> ""]
Raise(e) == [kind |-> "raise", resp |-> None, exc |-> e]
NoOutcome == [kind |-> "none", resp |-> None, exc |-> ""]
NewResponse(status) == [id |-> "new", status |-> status]

\* one entry of the call log: the call, its argument and what it returned
LookupEntry(api_id, region) ==
    [call |-> "get_api_region", api_id |-> api_id, region |-> region,
     ctx |-> None, ret |-> None]
InvokeEntry(c, result) ==
    [call |-> "invoke_rest_api_from_request", api_id |-> c.api_id,
     region |-> c.region_name, ctx |-> Some(c), ret |-> result]

(***************************************************************************)
(* ApiInvocationContext                                                     *)
(***************************************************************************)
\* __init__; the underscore attributes do not exist until a caller sets them
ApiInvocationContext(api_id, stage) ==
    [api_id |-> api_id, stage |-> stage, region_name |-> None,
     path_with_query_string |-> None,
     _invocation_path |-> None, _method |-> None,
     _path_with_query_string |-> None]

\* the method property
method(c, req) == req.method

\* parse_query_string: the key=value pairs of "k=v&k=v"
parse_query_string(qs) == {qs[i] : i \in {j \in DOMAIN qs : qs[j] # "&"}}

NotCalled == [called |-> FALSE, exc |-> "", value |-> {}]

\* query_params()
query_params(c) ==
    IF IsNone(c.path_with_query_string)
    THEN [called |-> TRUE, exc |-> "AttributeError", value |-> {}]
    ELSE [called |-> TRUE, exc |-> "",
          value |-> parse_query_string(PartitionAfter(Get(c.path_with_query_string), "?"))]

(***************************************************************************)
(* router_asf.to_invocation_context                                         *)
(***************************************************************************)
NoParams == [api_id |-> None, stage |-> None, path |-> None]

\* X-Forwarded-For is kept as the list of its entries (", ".join of them)
to_invocation_context(req, up, store) ==
    LET region == get_api_region(store, up.api_id)
        req2 == [req EXCEPT
                    !.headers.xff = Append(Append(@, req.remote_addr), req.host),
                    !.headers.edge = Some(Strip(HostUrl(req), "/"))]
        c == [ApiInvocationContext(up.api_id, up.stage) EXCEPT
                    !._invocation_path = up.path,
                    !.region_name = region]
    IN [request |-> req2, ctx |-> c, log |-> <<LookupEntry(up.api_id, region)>>]

(***************************************************************************)
(* ApigatewayRouter.invoke_rest_api                                         *)
(***************************************************************************)
\* the outcome once invoke_rest_api_from_request has answered
invoke_result(result) ==
    IF ~IsNone(result) THEN Return(Get(result)) ELSE Raise("NotFound")

\* invoke_rest_api building the context before it looks the region up
invoke_rest_api_BuildFirst(req, up, store, result) ==
    LET b == to_invocation_context(req, up, store)
    IN IF IsNone(b.ctx.region_name)
       THEN [request |-> b.request, ctx |-> Some(b.ctx),
             outcome |-> Return(NewResponse(404)), log |-> b.log]
       ELSE [request |-> b.request, ctx |-> Some(b.ctx),
             outcome |-> invoke_result(result),
             log |-> b.log \o <<InvokeEntry(b.ctx, result)>>]

\* invoke_rest_api answering 404 itself, and after a second try, when the
\* integration returns nothing
invoke_rest_api_Retry(req, up, store, result) ==
    LET region == get_api_region(store, up.api_id)
        b == to_invocation_context(req, up, store)
    IN IF IsNone(region)
       THEN [request |-> req, ctx |-> None,
             outcome |-> Return(NewResponse(404)),
             log |-> <<LookupEntry(up.api_id, region)>>]
       ELSE IF IsNone(result)
       THEN [request |-> b.request, ctx |-> Some(b.ctx),
             outcome |-> Return(NewResponse(404)),
             log |-> <<LookupEntry(up.api_id, region)>> \o b.log
                     \o <<InvokeEntry(b.ctx, result), InvokeEntry(b.ctx, result)>>]
       ELSE [request |-> b.request, ctx |-> Some(b.ctx),
             outcome |-> invoke_result(result),
             log |-> <<LookupEntry(up.api_id, region)>> \o b.log
                     \o <<InvokeEntry(b.ctx, result)>>]

\* invoke_rest_api, run without interruption: both lookups read the same store
invoke_rest_api(req, up, store, result) ==
    IF IsNone(up.api_id)
    THEN [request |-> req, ctx |-> None, outcome |-> Raise("KeyError"), log |-> <<>>]
    ELSE LET region == get_api_region(store, up.api_id)
             b == to_invocation_context(req, up, store)
         IN IF IsNone(region)
            THEN [request |-> req, ctx |-> None,
                  outcome |-> Return(NewResponse(404)),
                  log |-> <<LookupEntry(up.api_id, region)>>]
            ELSE [request |-> b.request, ctx |-> Some(b.ctx),
                  outcome |-> invoke_result(result),
                  log |-> <<LookupEntry(up.api_id, region)>> \o b.log
                          \o <<InvokeEntry(b.ctx, result)>>]

(***************************************************************************)
(* AsfApigatewayProvider.test_invoke_method                                 *)
(***************************************************************************)
\* restApiId and httpMethod of the parsed TestInvokeMethodRequest, and the
\* JSON body: hasData is false for an empty or malformed body
Payloads ==
    [restApiId : {None, Some("a1")},
     httpMethod : {None, Some("PUT")},
     hasData : BOOLEAN,
     pathWithQueryString :
        {None, Some(<<>>), Some(<<"/", "pets", "/", "1", "?", "x=1">>)}]

TestRequests ==
    {[kind |-> "test_invoke", host |-> LocalHost,
      path |-> <<"/", "restapis", "/", "test-invoke">>,
      query_string |-> <<>>, method |-> "POST", remote_addr |-> RemoteAddr,
      headers |-> [xff |-> <<>>, edge |-> None],
      payload |-> pl] :
        pl \in {q \in Payloads : q.hasData \/ IsNone(q.pathWithQueryString)}}

TestInvokeMethodResponse(result) ==
    [id |-> "TestInvokeMethodResponse", status |-> result.status]

test_invoke_method(req, store, result) ==
    LET b == to_invocation_context(req, NoParams, store)
        pl == req.payload
        c1 == [b.ctx EXCEPT !.api_id = pl.restApiId, !._method = pl.httpMethod]
        pwqs == pl.pathWithQueryString
        c2 == IF pl.hasData /\ ~IsNone(pwqs) /\ Get(pwqs) # <<>>
              THEN [c1 EXCEPT !._path_with_query_string = pwqs,
                              !._invocation_path = Some(SplitFirst(Get(pwqs), "?"))]
              ELSE c1
    IN [request |-> b.request, ctx |-> Some(c2),
        outcome |-> IF IsNone(result) THEN Raise("AttributeError")
                    ELSE Return(TestInvokeMethodResponse(Get(result))),
        log |-> b.log \o <<InvokeEntry(c2, result)>>]

(***************************************************************************)
(* States in which a part of the system is at rest                          *)
(***************************************************************************)
Threads == 1..NumThreads

RouteInit ==
    /\ rules = <<>>
    /\ registered = [p \in Providers |-> FALSE]
    /\ calls = [p \in Providers |-> 0]

ReqInit ==
    /\ arrived = None
    /\ request = None
    /\ url_params = None
    /\ ctx = None
    /\ outcome = NoOutcome
    /\ log = <<>>
    /\ qp = NotCalled

RegInit ==
    /\ rpc = [t \in Threads |-> "idle"]
    /\ rowner = [t \in Threads |-> MainProvider]
    /\ rk = [t \in Threads |-> 0]

(***************************************************************************)
(* The sequential system: every handler runs to completion                  *)
(***************************************************************************)
\* AsfApigatewayProvider.on_after_init
OnAfterInit(p) ==
    /\ calls[p] < MaxCalls
    /\ LET r == register_routes(rules, registered, p)
       IN /\ rules' = r.rules
          /\ registered' = r.registered
    /\ calls' = [calls EXCEPT ![p] = @ + 1]

\* the API store changes (the provider's CreateRestApi, DeleteRestApi)
CreateApi(a, region) ==
    /\ IsNone(apis[a])
    /\ apis' = [apis EXCEPT ![a] = Some(region)]

DeleteApi(a) ==
    /\ ~IsNone(apis[a])
    /\ apis' = [apis EXCEPT ![a] = None]

\* the router finds no rule for the request and raises NotFound itself
DispatchNoMatch(req) ==
    /\ IsNone(resolve(rules, req.host, req.path, 1))
    /\ arrived' = Some(req)
    /\ request' = Some(req)
    /\ url_params' = None
    /\ ctx' = None
    /\ outcome' = Raise("NotFound")
    /\ log' = <<>>
    /\ qp' = NotCalled

\* the router dispatches the request to the endpoint of the first matching rule
Dispatch(req, result) ==
    /\ \E found \in {resolve(rules, req.host, req.path, 1)} :
          /\ ~IsNone(found)
          /\ \E h \in {invoke_rest_api(req, Get(found).args, apis, result)} :
                /\ arrived' = Some(req)
                /\ request' = Some(h.request)
                /\ url_params' = Some(Get(found).args)
                /\ ctx' = h.ctx
                /\ outcome' = h.outcome
                /\ log' = h.log
    /\ qp' = NotCalled

TestInvokeMethod(req, result) ==
    /\ \E h \in {test_invoke_method(req, apis, result)} :
          /\ arrived' = Some(req)
          /\ request' = Some(h.request)
          /\ url_params' = None
          /\ ctx' = h.ctx
          /\ outcome' = h.outcome
          /\ log' = h.log
    /\ qp' = NotCalled

\* invocation_context.path_with_query_string = override
SetPathWithQueryString(o) ==
    /\ ~IsNone(ctx)
    /\ ctx' = Some([Get(ctx) EXCEPT !.path_with_query_string = Some(o)])
    /\ UNCHANGED <<arrived, request, url_params, outcome, log, qp>>

\* invocation_context.query_params()
QueryParams ==
    /\ ~IsNone(ctx)
    /\ qp' = query_params(Get(ctx))
    /\ UNCHANGED <<arrived, request, url_params, ctx, outcome, log>>

(***************************************************************************)
(* Request bodies: bytes.decode("utf-8"), base64.b64encode, json.dumps      *)
(***************************************************************************)
ByteAlphabet == {65, 195, 169, 255, 226, 130, 172}

RECURSIVE SeqsUpTo(_, _)
SeqsUpTo(S, n) ==
    IF n = 0 THEN {<<>>}
    ELSE LET shorter == SeqsUpTo(S, n - 1)
         IN shorter \cup {Append(q, x) : q \in shorter, x \in S}

Bodies ==
    {[kind |-> "bytes", data |-> d] : d \in SeqsUpTo(ByteAlphabet, MaxBodyLen)}
    \cup {[kind |-> "str", data |-> d] : d \in {<<>>, <<65>>, <<233, 65>>}}
    \cup {[kind |-> "list", data |-> d] : d \in {<<>>, <<1>>, <<1, 2>>}}
    \cup {[kind |-> "dict", data |-> d] : d \in {<<>>, <<65, 1>>, <<65, 1, 66, 2>>}}

IsCont(b) == b >= 128 /\ b <= 191

\* number of continuation bytes a lead byte announces, -1 for no lead byte
Utf8Need(b) ==
    IF b < 128 THEN 0
    ELSE IF b >= 194 /\ b <= 223 THEN 1
    ELSE IF b >= 224 /\ b <= 239 THEN 2
    ELSE IF b >= 240 /\ b <= 244 THEN 3
    ELSE -1

\* the second byte of a sequence: no overlong form, no surrogate, <= U+10FFFF
Utf8SecondOk(b, c) ==
    /\ IsCont(c)
    /\ b = 224 => c >= 160
    /\ b = 237 => c <= 159
    /\ b = 240 => c >= 144
    /\ b = 244 => c <= 143

RECURSIVE Utf8Decode(_)
Utf8Decode(bs) ==
    IF bs = <<>> THEN [ok |-> TRUE, text |-> <<>>]
    ELSE LET b == bs[1]
             n == Utf8Need(b)
             wellFormed ==
                /\ n >= 0
                /\ Len(bs) >= n + 1
                /\ n >= 1 => Utf8SecondOk(b, bs[2])
                /\ \A i \in 3..(n + 1) : IsCont(bs[i])
             cp == CASE n = 0 -> b
                     [] n = 1 -> (b - 192) * 64 + (bs[2] - 128)
                     [] n = 2 -> (b - 224) * 4096 + (bs[2] - 128) * 64 + (bs[3] - 128)
                     [] n = 3 -> (b - 240) * 262144 + (bs[2] - 128) * 4096
                                 + (bs[3] - 128) * 64 + (bs[4] - 128)
         IN IF ~wellFormed THEN [ok |-> FALSE, text |-> <<>>]
            ELSE LET rest == Utf8Decode(SubSeq(bs, n + 2, Len(bs)))
                 IN IF rest.ok THEN [ok |-> TRUE, text |-> <<cp>> \o rest.text]
                    ELSE rest

\* the ASCII code of the base64 digit i
B64Char(i) ==
    IF i < 26 THEN 65 + i
    ELSE IF i < 52 THEN 97 + (i - 26)
    ELSE IF i < 62 THEN 48 + (i - 52)
    ELSE IF i = 62 THEN 43
    ELSE 47

B64Pad == 61

RECURSIVE b64encode(_)
b64encode(bs) ==
    IF bs = <<>> THEN <<>>
    ELSE IF Len(bs) = 1
    THEN LET n == bs[1] * 65536
         IN <<B64Char(n \div 262144), B64Char((n \div 4096) % 64), B64Pad, B64Pad>>
    ELSE IF Len(bs) = 2
    THEN LET n == bs[1] * 65536 + bs[2] * 256
         IN <<B64Char(n \div 262144), B64Char((n \div 4096) % 64),
              B64Char((n \div 64) % 64), B64Pad>>
    ELSE LET n == bs[1] * 65536 + bs[2] * 256 + bs[3]
         IN <<B64Char(n \div 262144), B64Char((n \div 4096) % 64),
              B64Char((n \div 64) % 64), B64Char(n % 64)>>
            \o b64encode(SubSeq(bs, 4, Len(bs)))

\* json.dumps of a list of digits, "[1, 2]", or of a dict from one-letter
\* keys to digits (data holds key, value, key, value), "{\"A\": 1}"
RECURSIVE JsonItems(_, _)
JsonItems(kind, d) ==
    IF d = <<>> THEN <<>>
    ELSE LET item == IF kind = "list" THEN <<48 + d[1]>>
                     ELSE <<34, d[1], 34, 58, 32, 48 + d[2]>>
             rest == IF kind = "list" THEN Tail(d) ELSE Tail(Tail(d))
         IN item \o (IF rest = <<>> THEN <<>> ELSE <<44, 32>> \o JsonItems(kind, rest))

json_dumps(b) ==
    IF b.kind = "list" THEN <<91>> \o JsonItems("list", b.data) \o <<93>>
    ELSE <<123>> \o JsonItems("dict", b.data) \o <<125>>

Ok(v) == [exc |-> "", val |-> v]
Exc(e, v) == [exc |-> e, val |-> v]

\* utils.strings.to_str: bytes are decoded as UTF-8 (errors="strict"),
\* anything else is returned as it is
to_str(kind, data) ==
    IF kind = "bytes"
    THEN LET d == Utf8Decode(data)
         IN IF d.ok THEN Ok(d.text) ELSE Exc("UnicodeDecodeError", <<>>)
    ELSE Ok(data)

\* json.dumps(data) if isinstance(data, (dict, list)) else to_str(data)
render(b) ==
    IF b.kind \in {"dict", "list"} THEN Ok(json_dumps(b)) ELSE to_str(b.kind, b.data)

\* is_data_base64_encoded without its except clause
is_data_base64_encoded_NoExcept(b) ==
    LET r == render(b)
    IN IF r.exc = "" THEN Ok(FALSE) ELSE Exc(r.exc, FALSE)

\* the is_data_base64_encoded property
is_data_base64_encoded(b) ==
    LET r == render(b)
    IN IF r.exc = "UnicodeDecodeError" THEN Ok(TRUE)
       ELSE IF r.exc # "" THEN Exc(r.exc, FALSE)
       ELSE Ok(FALSE)

\* data_as_string()
data_as_string(b) ==
    LET r == render(b)
    IN IF r.exc = "UnicodeDecodeError" THEN to_str("bytes", b64encode(b.data))
       ELSE r

NoFlag == [called |-> FALSE, exc |-> "", val |-> FALSE]
NoString == [called |-> FALSE, exc |-> "", val |-> <<>>]

BodyRest ==
    /\ body = [kind |-> "bytes", data |-> <<>>]
    /\ flagRes = NoFlag
    /\ strRes = NoString

ReadFlag ==
    /\ LET r == is_data_base64_encoded(body)
       IN flagRes' = [called |-> TRUE, exc |-> r.exc, val |-> r.val]
    /\ UNCHANGED <<body, strRes>>

ReadString ==
    /\ LET r == data_as_string(body)
       IN strRes' = [called |-> TRUE, exc |-> r.exc, val |-> r.val]
    /\ UNCHANGED <<body, flagRes>>

(***************************************************************************)
(* auth_info and the auth_context property                                  *)
(***************************************************************************)
PrincipalIds == {"", "u1", "u2"}
AuthorizerTypes == {"lambda"}
EmptyDict == [principalId |-> None, claims |-> None]

\* the dicts an authorizer stores under auth_info["context"]
ContextDicts ==
    [principalId : {None} \cup {Some(u) : u \in PrincipalIds \ {""}},
     claims : {None, Some("c1")}]

\* auth_context returning a dict it never stores (no setdefault)
auth_context_NoStore(ai) ==
    LET context == IF IsNone(ai.context) THEN EmptyDict ELSE Get(ai.context)
        mirrored == IF ~IsNone(ai.principalId) /\ Get(ai.principalId) # ""
                    THEN [context EXCEPT !.principalId = ai.principalId]
                    ELSE context
    IN [auth_info |-> ai, ret |-> Some(mirrored)]

\* the auth_context property, auth_info being a dict: the dict it returns is
\* the one stored under auth_info["context"]
auth_context(ai) ==
    LET context == IF IsNone(ai.context) THEN EmptyDict ELSE Get(ai.context)
        mirrored == IF ~IsNone(ai.principalId) /\ Get(ai.principalId) # ""
                    THEN [context EXCEPT !.principalId = ai.principalId]
                    ELSE context
    IN [auth_info |-> [ai EXCEPT !.context = Some(mirrored)], ret |-> Some(mirrored)]

\* the auth_identity property
auth_identity(ai) ==
    IF IsNone(ai.identity) THEN [ai EXCEPT !.identity = Some("{}")] ELSE ai

ReadAuthContext ==
    /\ LET r == auth_context(auth_info)
       IN /\ auth_info' = r.auth_info
          /\ authRead' = r.ret
    /\ justRead' = TRUE
    /\ hasRead' = TRUE

ReadAuthIdentity ==
    /\ auth_info' = auth_identity(auth_info)
    /\ justRead' = FALSE
    /\ UNCHANGED <<authRead, hasRead>>

\* auth_info["principalId"] = u
SetPrincipalId(u) ==
    /\ auth_info' = [auth_info EXCEPT !.principalId = Some(u)]
    /\ justRead' = FALSE
    /\ UNCHANGED <<authRead, hasRead>>

\* auth_info["authorizer_type"] = t
SetAuthorizerType(t) ==
    /\ auth_info' = [auth_info EXCEPT !.authorizer_type = Some(t)]
    /\ justRead' = FALSE
    /\ UNCHANGED <<authRead, hasRead>>

\* auth_info["context"] = c
SetAuthContext(c) ==
    /\ auth_info' = [auth_info EXCEPT !.context = Some(c)]
    /\ justRead' = FALSE
    /\ UNCHANGED <<authRead, hasRead>>

(***************************************************************************)
(* register_routes, statement by statement, on threads that may share a     *)
(* router object or hold one each around the same Router                    *)
(***************************************************************************)
\* a thread enters self.router.register_routes() of provider o
RCall(t, o) ==
    /\ rpc[t] = "idle"
    /\ rpc' = [rpc EXCEPT ![t] = "check"]
    /\ rowner' = [rowner EXCEPT ![t] = o]
    /\ UNCHANGED <<rk, rules, registered>>

\* if self.registered: return
RCheck(t) ==
    /\ rpc[t] = "check"
    /\ rpc' = [rpc EXCEPT ![t] = IF registered[rowner[t]] THEN "done" ELSE "set"]
    /\ UNCHANGED <<rowner, rk, rules, registered>>

\* self.registered = True
RSet(t) ==
    /\ rpc[t] = "set"
    /\ registered' = [registered EXCEPT ![rowner[t]] = TRUE]
    /\ rpc' = [rpc EXCEPT ![t] = "add"]
    /\ UNCHANGED <<rowner, rk, rules>>

\* the next self.router.add(...)
RAdd(t) ==
    /\ rpc[t] = "add"
    /\ rules' = RouterAdd(rules, Binding(rk[t] + 1, rowner[t]))
    /\ rk' = [rk EXCEPT ![t] = @ + 1]
    /\ rpc' = [rpc EXCEPT ![t] = IF rk[t] + 1 = NumBindings THEN "done" ELSE "add"]
    /\ UNCHANGED <<rowner, registered>>

(***************************************************************************)
(* invoke_rest_api, statement by statement, beside a changing API store     *)
(***************************************************************************)
\* the router hands a request to invoke_rest_api
HStart(req) ==
    /\ hpc \in {"idle", "done"}
    /\ \E found \in {resolve(rules, req.host, req.path, 1)} :
          /\ ~IsNone(found)
          /\ url_params' = Some(Get(found).args)
    /\ arrived' = Some(req)
    /\ request' = Some(req)
    /\ ctx' = None
    /\ outcome' = NoOutcome
    /\ log' = <<>>
    /\ hpc' = "check"
    /\ UNCHANGED qp

\* if not get_api_region(url_params["api_id"]): return Response(status=404)
HCheck ==
    /\ hpc = "check"
    /\ LET region == get_api_region(apis, Get(url_params).api_id)
       IN /\ log' = <<LookupEntry(Get(url_params).api_id, region)>>
          /\ outcome' = IF IsNone(region) THEN Return(NewResponse(404)) ELSE outcome
          /\ hpc' = IF IsNone(region) THEN "done" ELSE "build"
    /\ UNCHANGED <<arrived, request, url_params, ctx, qp>>

\* invocation_context = to_invocation_context(request, url_params)
HBuild ==
    /\ hpc = "build"
    /\ LET b == to_invocation_context(Get(request), Get(url_params), apis)
       IN /\ request' = Some(b.request)
          /\ ctx' = Some(b.ctx)
          /\ log' = log \o b.log
    /\ hpc' = "invoke"
    /\ UNCHANGED <<arrived, url_params, outcome, qp>>

\* result = invoke_rest_api_from_request(invocation_context), and the return
HInvoke(result) ==
    /\ hpc = "invoke"
    /\ log' = Append(log, InvokeEntry(Get(ctx), result))
    /\ outcome' = invoke_result(result)
    /\ hpc' = "done"
    /\ UNCHANGED <<arrived, request, url_params, ctx, qp>>

(***************************************************************************)
(* Specifications                                                           *)
(***************************************************************************)
AuthRest ==
    /\ auth_info = [principalId |-> None, context |-> None, identity |-> None,
                    authorizer_type |-> None]
    /\ authRead = None
    /\ justRead = FALSE
    /\ hasRead = FALSE

StoreInit == apis = [a \in ApiIds |-> None]

\* the sequential system, one provider
Init ==
    /\ RouteInit /\ StoreInit /\ ReqInit /\ RegInit /\ BodyRest /\ AuthRest
    /\ hpc = "idle"

Next ==
    \/ /\ OnAfterInit(MainProvider)
       /\ UNCHANGED <<apis, reqVars, hpc, regVars, bodyVars, authVars>>
    \/ /\ \E a \in ApiIds, r \in Regions : CreateApi(a, r)
       /\ UNCHANGED <<routeVars, reqVars, hpc, regVars, bodyVars, authVars>>
    \/ /\ \E a \in ApiIds : DeleteApi(a)
       /\ UNCHANGED <<routeVars, reqVars, hpc, regVars, bodyVars, authVars>>
    \/ /\ \E req \in UserRequests : DispatchNoMatch(req)
       /\ UNCHANGED <<routeVars, apis, hpc, regVars, bodyVars, authVars>>
    \/ /\ \E req \in UserRequests, result \in Results : Dispatch(req, result)
       /\ UNCHANGED <<routeVars, apis, hpc, regVars, bodyVars, authVars>>

Spec == Init /\ [][Next]_vars

\* contexts built for user requests and for test invocations, and their
\* accessors; the routes are registered and API a1 exists
CtxInit ==
    /\ rules = register_routes(<<>>, [p \in Providers |-> FALSE], MainProvider).rules
    /\ registered = [p \in Providers |-> p = MainProvider]
    /\ calls = [p \in Providers |-> IF p = MainProvider THEN 1 ELSE 0]
    /\ apis = [a \in ApiIds |-> IF a = "a1" THEN Some("us-east-1") ELSE None]
    /\ ReqInit /\ RegInit /\ BodyRest /\ AuthRest
    /\ hpc = "idle"

CtxNext ==
    \/ /\ \E req \in UserRequests, result \in Results : Dispatch(req, result)
       /\ UNCHANGED <<routeVars, apis, hpc, regVars, bodyVars, authVars>>
    \/ /\ \E req \in TestRequests, result \in Results : TestInvokeMethod(req, result)
       /\ UNCHANGED <<routeVars, apis, hpc, regVars, bodyVars, authVars>>
    \/ /\ \E o \in Overrides : SetPathWithQueryString(o)
       /\ UNCHANGED <<routeVars, apis, hpc, regVars, bodyVars, authVars>>
    \/ /\ QueryParams
       /\ UNCHANGED <<routeVars, apis, hpc, regVars, bodyVars, authVars>>

CtxSpec == CtxInit /\ [][CtxNext]_vars

\* the body accessors on every body
BodyInit ==
    /\ RouteInit /\ StoreInit /\ ReqInit /\ RegInit /\ AuthRest
    /\ hpc = "idle"
    /\ body \in Bodies
    /\ flagRes = NoFlag
    /\ strRes = NoString

BodyNext ==
    \/ /\ ReadFlag
       /\ UNCHANGED <<routeVars, apis, reqVars, hpc, regVars, authVars>>
    \/ /\ ReadString
       /\ UNCHANGED <<routeVars, apis, reqVars, hpc, regVars, authVars>>

BodySpec == BodyInit /\ [][BodyNext]_vars

\* reads and updates of one context's auth_info
AuthInit ==
    /\ RouteInit /\ StoreInit /\ ReqInit /\ RegInit /\ BodyRest /\ AuthRest
    /\ hpc = "idle"

AuthNext ==
    \/ /\ ReadAuthContext
       /\ UNCHANGED <<routeVars, apis, reqVars, hpc, regVars, bodyVars>>
    \/ /\ ReadAuthIdentity
       /\ UNCHANGED <<routeVars, apis, reqVars, hpc, regVars, bodyVars, authRead, hasRead>>
    \/ /\ \E u \in PrincipalIds : SetPrincipalId(u)
       /\ UNCHANGED <<routeVars, apis, reqVars, hpc, regVars, bodyVars>>
    \/ /\ \E t \in AuthorizerTypes : SetAuthorizerType(t)
       /\ UNCHANGED <<routeVars, apis, reqVars, hpc, regVars, bodyVars>>
    \/ /\ \E c \in ContextDicts : SetAuthContext(c)
       /\ UNCHANGED <<routeVars, apis, reqVars, hpc, regVars, bodyVars>>

AuthSpec == AuthInit /\ [][AuthNext]_vars

\* concurrent register_routes calls
RegSpecInit ==
    /\ RouteInit /\ StoreInit /\ ReqInit /\ RegInit /\ BodyRest /\ AuthRest
    /\ hpc = "idle"

RegNext ==
    \/ /\ \E t \in Threads, o \in Providers : RCall(t, o)
       /\ UNCHANGED <<calls, apis, reqVars, hpc, bodyVars, authVars>>
    \/ /\ \E t \in Threads : RCheck(t)
       /\ UNCHANGED <<calls, apis, reqVars, hpc, bodyVars, authVars>>
    \/ /\ \E t \in Threads : RSet(t)
       /\ UNCHANGED <<calls, apis, reqVars, hpc, bodyVars, authVars>>
    \/ /\ \E t \in Threads : RAdd(t)
       /\ UNCHANGED <<calls, apis, reqVars, hpc, bodyVars, authVars>>

RegSpec == RegSpecInit /\ [][RegNext]_vars

\* a request handled while the API store changes; the routes were registered
\* once, before traffic began
HandleInit ==
    /\ rules = register_routes(<<>>, [p \in Providers |-> FALSE], MainProvider).rules
    /\ registered = [p \in Providers |-> p = MainProvider]
    /\ calls = [p \in Providers |-> IF p = MainProvider THEN 1 ELSE 0]
    /\ StoreInit /\ ReqInit /\ RegInit /\ BodyRest /\ AuthRest
    /\ hpc = "idle"

HandleNext ==
    \/ /\ \E a \in ApiIds, r \in Regions : CreateApi(a, r)
       /\ UNCHANGED <<routeVars, reqVars, hpc, regVars, bodyVars, authVars>>
    \/ /\ \E a \in ApiIds : DeleteApi(a)
       /\ UNCHANGED <<routeVars, reqVars, hpc, regVars, bodyVars, authVars>>
    \/ /\ \E req \in UserRequests : HStart(req)
       /\ UNCHANGED <<routeVars, apis, regVars, bodyVars, authVars>>
    \/ /\ HCheck
       /\ UNCHANGED <<routeVars, apis, regVars, bodyVars, authVars>>
    \/ /\ HBuild
       /\ UNCHANGED <<routeVars, apis, regVars, bodyVars, authVars>>
    \/ /\ \E result \in Results : HInvoke(result)
       /\ UNCHANGED <<routeVars, apis, regVars, bodyVars, authVars>>

HandleSpec == HandleInit /\ [][HandleNext]_vars

(***************************************************************************)
(* Properties                                                               *)
(***************************************************************************)
InvokeCalls == {i \in DOMAIN log : log[i].call = "invoke_rest_api_from_request"}
RulesLike(k) ==
    {i \in DOMAIN rules : /\ rules[i].host = Binding(k, MainProvider).host
                          /\ rules[i].path = Binding(k, MainProvider).path}

\* C1: however many times register_routes has been called in sequence on the
\* one router (n >= 1), the table holds exactly the five bindings, three
\* host-based and two path-based, each once and in registration order, as
\* after the first call; no request matches more than one rule
T_C1 ==
    /\ calls[MainProvider] = 0 => rules = <<>>
    /\ calls[MainProvider] >= 1 =>
          /\ Len(rules) = 5
          /\ \A k \in 1..5 : rules[k] = Binding(k, MainProvider)
          /\ Cardinality({i \in DOMAIN rules : ~IsNone(rules[i].host)}) = 3
          /\ Cardinality({i \in DOMAIN rules : IsNone(rules[i].host)}) = 2
    /\ \A req \in UserRequests :
          Cardinality({i \in DOMAIN rules :
                          ~IsNone(MatchRule(rules[i], req.host, req.path))}) <= 1

W_C1 == calls[MainProvider] >= 2 /\ Len(rules) = 5 /\ registered[MainProvider]

\* C2: when the upfront region lookup of invoke_rest_api returns nothing, the
\* handler returns a new 404 response, builds no context, leaves the request
\* (X-Forwarded-For, edge header) as it arrived, makes no other collaborator
\* call and raises nothing
T_C2 ==
    (~IsNone(url_params) /\ log # <<>> /\ IsNone(log[1].region)) =>
        /\ outcome = Return(NewResponse(404))
        /\ ctx = None
        /\ request = arrived
        /\ Len(log) = 1
        /\ InvokeCalls = {}

W_C2 ==
    /\ ~IsNone(url_params) /\ log # <<>> /\ IsNone(log[1].region)
    /\ outcome.kind = "return"
    /\ Get(arrived).headers.xff # <<>>
    /\ calls[MainProvider] >= 1

\* C3: when the upfront region lookup succeeds, the context is built, then
\* the integration is called exactly once, with that context; a response it
\* returns is the handler's return value, unmodified, and when it returns
\* nothing the handler raises NotFound
T_C3 ==
    (~IsNone(url_params) /\ log # <<>> /\ ~IsNone(log[1].region)) =>
        /\ ~IsNone(ctx)
        /\ ~IsNone(Get(request).headers.edge)
        /\ Len(log) = 3
        /\ log[2].call = "get_api_region"
        /\ InvokeCalls = {3}
        /\ log[3].ctx = ctx
        /\ IF IsNone(log[3].ret)
           THEN outcome = Raise("NotFound")
           ELSE outcome = Return(Get(log[3].ret))

W_C3 ==
    /\ ~IsNone(url_params) /\ log # <<>> /\ ~IsNone(log[1].region)
    /\ InvokeCalls # {}
    /\ outcome = Raise("NotFound")

\* C4: the context built from the variables a route captured has api_id and
\* stage as captured and an invocation path that is set, not empty, and
\* starts with "/"
CE_C4 ==
    (~IsNone(url_params) /\ ~IsNone(ctx)) =>
        /\ Get(ctx).api_id = Get(url_params).api_id
        /\ Get(ctx).stage = Get(url_params).stage
        /\ ~IsNone(Get(ctx)._invocation_path)
        /\ StartsWithSlash(Get(Get(ctx)._invocation_path))

\* C5: for a test invocation whose payload gives restApiId, httpMethod and
\* pathWithQueryString, the context handed to the integration has api_id
\* restApiId, method httpMethod, invocation path the part of
\* pathWithQueryString before "?", and path_with_query_string the payload's
CE_C5 ==
    \A i \in InvokeCalls :
        LET pl == Get(arrived).payload
            c == Get(log[i].ctx)
        IN (/\ Get(arrived).kind = "test_invoke"
            /\ ~IsNone(pl.restApiId) /\ ~IsNone(pl.httpMethod)
            /\ pl.hasData /\ ~IsNone(pl.pathWithQueryString)
            /\ Get(pl.pathWithQueryString) # <<>>) =>
              /\ c.api_id = pl.restApiId
              /\ Some(method(c, Get(request))) = pl.httpMethod
              /\ c._invocation_path = Some(SplitFirst(Get(pl.pathWithQueryString), "?"))
              /\ c.path_with_query_string = pl.pathWithQueryString

\* C6: query_params() returns the parameters of the incoming request's own
\* query string, on a fresh context and after path_with_query_string was
\* set to an override
CE_C6 ==
    qp.called =>
        /\ qp.exc = ""
        /\ qp.value = parse_query_string(Get(arrived).query_string)

\* C7: is_data_base64_encoded and data_as_string agree: for a body that
\* decodes as UTF-8, or a str, or a dict or list, the flag is false and
\* the string is the text; for bytes that do not decode the flag is true and
\* the string is the base64 of the bytes; neither raises
DecodedText ==
    IF body.kind = "bytes" THEN Utf8Decode(body.data)
    ELSE IF body.kind = "str" THEN [ok |-> TRUE, text |-> body.data]
    ELSE [ok |-> TRUE, text |-> json_dumps(body)]

T_C7 ==
    /\ flagRes.called => (flagRes.exc = "" /\ flagRes.val = ~DecodedText.ok)
    /\ strRes.called =>
          /\ strRes.exc = ""
          /\ strRes.val = IF DecodedText.ok THEN DecodedText.text
                          ELSE b64encode(body.data)

\* the body b"\xff": the flag is true and the string is "/w=="
W_C7 ==
    /\ body = [kind |-> "bytes", data |-> <<255>>]
    /\ flagRes.called /\ flagRes.val = TRUE
    /\ strRes.called /\ strRes.val = <<47, 119, 61, 61>>

\* C8 as stated: once auth_context was read auth_info["context"] exists; a
\* read returns the stored context, with principalId equal to
\* auth_info["principalId"] whenever that key is present; a read is
\* idempotent and changes no other key
C8Frame ==
    LET once == auth_context(auth_info)
        twice == auth_context(once.auth_info)
    IN /\ twice = once
       /\ once.auth_info.principalId = auth_info.principalId
       /\ once.auth_info.identity = auth_info.identity
       /\ once.auth_info.authorizer_type = auth_info.authorizer_type

C8Stored ==
    /\ hasRead => ~IsNone(auth_info.context)
    /\ justRead => (~IsNone(authRead) /\ authRead = auth_info.context)

CE_C8 ==
    /\ C8Stored
    /\ C8Frame
    /\ (justRead /\ ~IsNone(auth_info.principalId)) =>
          Get(authRead).principalId = auth_info.principalId

\* C8 amended: as C8, with principalId mirrored whenever the key is present
\* with a non-empty value
T_C8 ==
    /\ C8Stored
    /\ C8Frame
    /\ (justRead /\ ~IsNone(auth_info.principalId) /\ Get(auth_info.principalId) # "") =>
          Get(authRead).principalId = auth_info.principalId

\* a read that overwrote a principalId an authorizer had left in the context
W_C8 ==
    /\ justRead
    /\ auth_info.principalId = Some("u2")
    /\ Get(authRead).principalId = Some("u2")
    /\ Get(authRead).claims = Some("c1")
    /\ ~IsNone(auth_info.authorizer_type)

\* C9: the shared table holds each of the five bindings at most once, for
\* any number of router objects around it and any interleaving of their
\* register_routes calls
CE_C9 == \A k \in 1..5 : Cardinality(RulesLike(k)) <= 1

\* C10: the context passed to the integration has a region_name, also when
\* the API store changes between the two region lookups
CE_C10 == \A i \in InvokeCalls : ~IsNone(Get(log[i].ctx).region_name)

====
